---------------------------- MODULE Spec2Model ----------------------------
(***************************************************************************)
(* A model of conans/client/rest/conan_requester.py: the ConanRequester    *)
(* that turns get/put/post/delete into a parameterised transport call and  *)
(* clears the proxy variables of the process environment around it.        *)
(*                                                                         *)
(* Python values that can be of several types (None, bool, int, str, dict, *)
(* tuple) are tagged records, so that `is True`, truthiness and equality   *)
(* keep their Python meaning.  Strings that the code parses or composes    *)
(* (URLs, glob patterns, the no_proxy_match option, header values, the     *)
(* User-Agent) are sequences of one-character strings; strings it only     *)
(* passes around (paths, proxy URLs, environment values) are TLA+ strings. *)
(* A dict is a function whose domain is its key set; the empty dict is     *)
(* the empty function << >>.                                               *)
(***************************************************************************)
EXTENDS Integers, Sequences, FiniteSets, TLC

VARIABLES
    config,     \* the configuration object handed to __init__
    files,      \* paths for which os.path.exists is true
    environ,    \* os.environ: the process-wide environment
    warned,     \* whether warnings.warn was called by __init__
    self,       \* the ConanRequester's attributes, Nothing before __init__
    call,       \* the sequential call that just ended: arguments, environment before it
    sent,       \* its transport invocation: arguments and the environment it saw
    logged,     \* the record it passed to log_client_rest_api_call
    ret,        \* how it ended: a return value or a raise
    old_env,    \* its local old_env, Nothing if unbound
    pc,         \* concurrent callers: position of each caller in _call_method
    loc,        \* concurrent callers: locals of each caller's _call_method frame
    env0        \* the environment before the first call started

vars == <<config, files, environ, warned, self, call, sent, logged, ret, old_env,
          pc, loc, env0>>

seqVars == <<call, sent, logged, ret, old_env>>
concVars == <<pc, loc>>

(***************************************************************************)
(* Python values                                                           *)
(***************************************************************************)
Nothing == [t |-> "nothing"]
PyNone == [t |-> "None"]
PyBool(b) == [t |-> "bool", b |-> b]
PyInt(i) == [t |-> "int", i |-> i]
PyStr(s) == [t |-> "str", s |-> s]
PyDict(d) == [t |-> "dict", d |-> d]
PyTuple(e) == [t |-> "tuple", e |-> e]

\* bool(v) for a tagged value
Truthy(v) ==
    CASE v.t = "None" -> FALSE
      [] v.t = "bool" -> v.b
      [] v.t = "int" -> v.i # 0
      [] v.t = "str" -> v.s # ""
      [] v.t = "dict" -> DOMAIN v.d # {}
      [] v.t = "tuple" -> v.e # << >>

EmptyDict == << >>

\* d.get(k, default)
DictGet(d, k, default) == IF k \in DOMAIN d THEN d[k] ELSE default

\* d[k] = v
DictSet(d, k, v) == [x \in DOMAIN d \cup {k} |-> IF x = k THEN v ELSE d[x]]

\* d without k: the dict left by d.pop(k, default)
DictDel(d, k) == [x \in DOMAIN d \ {k} |-> d[x]]

\* d.update(e)
DictUpdate(d, e) == [x \in DOMAIN d \cup DOMAIN e |-> IF x \in DOMAIN e THEN e[x] ELSE d[x]]

(***************************************************************************)
(* str.split(","), str.strip() and fnmatch.fnmatch on character sequences  *)
(***************************************************************************)
Whitespace == {" ", "\t", "\n", "\r"}

RECURSIVE Split(_)
\* s.split(","): the pieces between commas, the empty ones included
Split(s) ==
    IF \A i \in 1..Len(s) : s[i] # ","
    THEN <<s>>
    ELSE LET i == CHOOSE j \in 1..Len(s) :
                      s[j] = "," /\ \A k \in 1..(j - 1) : s[k] # ","
         IN  <<SubSeq(s, 1, i - 1)>> \o Split(SubSeq(s, i + 1, Len(s)))

RECURSIVE LStrip(_)
LStrip(s) == IF s # << >> /\ Head(s) \in Whitespace THEN LStrip(Tail(s)) ELSE s

RECURSIVE RStrip(_)
RStrip(s) ==
    IF s # << >> /\ s[Len(s)] \in Whitespace THEN RStrip(SubSeq(s, 1, Len(s) - 1)) ELSE s

\* s.strip()
Strip(s) == RStrip(LStrip(s))

RECURSIVE FnmatchUnanchored(_, _)
\* a glob that only has to match a prefix of the name
FnmatchUnanchored(name, pat) ==
    IF pat = << >> THEN TRUE
    ELSE IF Head(pat) = "*"
         THEN \E k \in 0..Len(name) :
                  FnmatchUnanchored(SubSeq(name, k + 1, Len(name)), Tail(pat))
         ELSE /\ name # << >>
              /\ (Head(pat) = "?" \/ Head(pat) = Head(name))
              /\ FnmatchUnanchored(Tail(name), Tail(pat))

RECURSIVE Fnmatch(_, _)
\* fnmatch.fnmatch(name, pat) on a POSIX system (os.path.normcase is the
\* identity): "*" matches any run of characters, "?" any one character, any
\* other character itself, and the pattern must match the whole name.
\* Character classes "[...]" are not modelled; no pattern used here has one.
Fnmatch(name, pat) ==
    IF pat = << >> THEN name = << >>
    ELSE IF Head(pat) = "*"
         THEN \E k \in 0..Len(name) :
                  Fnmatch(SubSeq(name, k + 1, Len(name)), Tail(pat))
         ELSE /\ name # << >>
              /\ (Head(pat) = "?" \/ Head(pat) = Head(name))
              /\ Fnmatch(Tail(name), Tail(pat))

\* whether sub occurs in s
Contains(s, sub) ==
    \E i \in 0..(Len(s) - Len(sub)) : SubSeq(s, i + 1, i + Len(sub)) = sub

(***************************************************************************)
(* Strings of the program and of the inputs                                *)
(***************************************************************************)
\* conans.__version__, platform.python_version(), requests.utils.default_user_agent()
client_version == <<"1", ".", "9", ".", "0">>
python_version == <<"3", ".", "6">>
default_user_agent == <<"p", "y", "t", "h", "o", "n", "-", "r", "e", "q", "u", "e", "s", "t", "s", "/", "2", ".", "2">>

UrlInternal == <<"h", "t", "t", "p", "s", ":", "/", "/", "f", "o", "o", ".", "i", "n", "t", "e", "r", "n", "a", "l", ".", "e", "x", "a", "m", "p", "l", "e", "/", "x">>
UrlOther == <<"h", "t", "t", "p", "s", ":", "/", "/", "o", "t", "h", "e", "r", ".", "e", "x", "a", "m", "p", "l", "e", "/", "x">>
UrlHost == <<"h", "t", "t", "p", "s", ":", "/", "/", "f", "o", "o", ".", "i", "n", "t", "e", "r", "n", "a", "l", ".", "e", "x", "a", "m", "p", "l", "e">>

\* values of the no_proxy_match option
PatInternal == <<"*", ".", "i", "n", "t", "e", "r", "n", "a", "l", ".", "e", "x", "a", "m", "p", "l", "e">>
PatInternalAny == <<"*", ".", "i", "n", "t", "e", "r", "n", "a", "l", ".", "e", "x", "a", "m", "p", "l", "e", "*">>
PatList == <<" ", "*", "o", "t", "h", "e", "r", "*", " ", ",", ",", "*", "/", "?">>
PatBlank == <<" ">>
PatEmpty == << >>

CallerAgent == <<"c", "u", "r", "l", "/", "7">>
HdrVal == <<"1">>

ProxyUrl == "http://p:8080"
CallerProxyUrl == "http://q:3128"
CacertPath == "cacert.pem"
CertPath == "client.crt"
KeyPath == "client.key"

(***************************************************************************)
(* ConanRequester.__init__                                                 *)
(***************************************************************************)
\* self.proxies = config.proxies or {}
InitialProxies(cfg) == IF Truthy(cfg.proxies) THEN cfg.proxies.d ELSE EmptyDict

\* the list comprehension with the filter applied after strip()
NoProxyMatchStripFirst(proxies) ==
    LET raw == DictGet(proxies, "no_proxy_match", << >>)
        stripped == [i \in 1..Len(Split(raw)) |-> Strip(Split(raw)[i])]
    IN  SelectSeq(stripped, LAMBDA el : el # << >>)

\* [el.strip() for el in self.proxies.pop("no_proxy_match", "").split(",") if el]
NoProxyMatch(proxies) ==
    LET raw == DictGet(proxies, "no_proxy_match", << >>)
        kept == SelectSeq(Split(raw), LAMBDA el : el # << >>)
    IN  [i \in 1..Len(kept) |-> Strip(kept[i])]

\* self.proxies after pop("no_proxy_match", "") and pop("no_proxy", None)
ProxiesAfterPops(proxies) == DictDel(DictDel(proxies, "no_proxy_match"), "no_proxy")

\* no_proxy = self.proxies.pop("no_proxy", None); if no_proxy: ...
DeprecatedNoProxy(proxies) ==
    "no_proxy" \in DOMAIN proxies /\ proxies["no_proxy"] # ""

\* the resolution that takes the key file for present whenever the cert is
ClientCertificatesAlwaysPair(cfg, fs) ==
    IF cfg.client_cert_path \notin fs
    THEN PyNone
    ELSE PyTuple(<<cfg.client_cert_path, cfg.client_cert_key_path>>)

\* self._client_certificates, from os.path.exists of the two paths
ClientCertificates(cfg, fs) ==
    IF cfg.client_cert_path \notin fs
    THEN PyNone
    ELSE IF cfg.client_cert_key_path \in fs
         THEN PyTuple(<<cfg.client_cert_path, cfg.client_cert_key_path>>)
         ELSE PyStr(cfg.client_cert_path)

\* the attributes __init__ leaves on the requester
NewRequester(cfg, fs) ==
    [ timeout_seconds     |-> cfg.request_timeout,
      proxies             |-> ProxiesAfterPops(InitialProxies(cfg)),
      cacert_path         |-> cfg.cacert_path,
      no_proxy_match      |-> NoProxyMatch(InitialProxies(cfg)),
      client_certificates |-> ClientCertificates(cfg, fs) ]

\* os.environ after __init__
EnvironAfterInit(cfg, env) ==
    IF DeprecatedNoProxy(InitialProxies(cfg))
    THEN DictSet(env, "NO_PROXY", InitialProxies(cfg)["no_proxy"])
    ELSE env

\* the filesystem after __init__: the CA bundle is saved when missing
FilesAfterInit(cfg, fs) == fs \cup {cfg.cacert_path}

(***************************************************************************)
(* _should_skip_proxy and _add_kwargs                                      *)
(***************************************************************************)
\* a skip decided by patterns that only have to match the start of the URL
ShouldSkipProxyUnanchored(requester, url) ==
    \E i \in 1..Len(requester.no_proxy_match) :
        FnmatchUnanchored(url, requester.no_proxy_match[i])

\* _should_skip_proxy(url)
ShouldSkipProxy(requester, url) ==
    \E i \in 1..Len(requester.no_proxy_match) :
        Fnmatch(url, requester.no_proxy_match[i])

\* verify decided by `== True` / truthiness instead of `is True`
VerifyKwargTruthy(requester, kwargs) ==
    IF Truthy(DictGet(kwargs, "verify", PyNone))
    THEN PyStr(requester.cacert_path)
    ELSE PyBool(FALSE)

\* kwargs["verify"], lines 102-105
VerifyKwarg(requester, kwargs) ==
    IF DictGet(kwargs, "verify", PyNone) = PyBool(TRUE)
    THEN PyStr(requester.cacert_path)
    ELSE PyBool(FALSE)

\* kwargs["cert"] = self._client_certificates, line 106
WithCert(requester, kwargs) == DictSet(kwargs, "cert", requester.client_certificates)

\* lines 107-109: the proxy map is attached unless the URL matches a pattern
WithProxies(requester, url, kwargs) ==
    IF requester.proxies # EmptyDict /\ ~ShouldSkipProxy(requester, url)
    THEN DictSet(kwargs, "proxies", PyDict(requester.proxies))
    ELSE kwargs

\* lines 110-111
WithTimeout(requester, kwargs) ==
    IF Truthy(requester.timeout_seconds)
    THEN DictSet(kwargs, "timeout", requester.timeout_seconds)
    ELSE kwargs

\* "Conan/%s (Python %s) %s" % (client_version, python_version, default_user_agent)
user_agent ==
    <<"C", "o", "n", "a", "n", "/">> \o client_version
        \o <<" ", "(", "P", "y", "t", "h", "o", "n", " ">> \o python_version
        \o <<")", " ">> \o default_user_agent

\* headers that keep a User-Agent the caller supplied
WithHeadersSetdefault(kwargs) ==
    LET h == IF Truthy(DictGet(kwargs, "headers", PyNone))
             THEN kwargs["headers"].d ELSE EmptyDict
    IN  DictSet(kwargs, "headers",
                PyDict(IF "User-Agent" \in DOMAIN h THEN h
                       ELSE DictSet(h, "User-Agent", user_agent)))

\* lines 112-117: an absent or falsy headers value becomes {}, then the
\* User-Agent entry is written
WithHeaders(kwargs) ==
    LET h == IF Truthy(DictGet(kwargs, "headers", PyNone))
             THEN kwargs["headers"].d ELSE EmptyDict
    IN  DictSet(kwargs, "headers", PyDict(DictSet(h, "User-Agent", user_agent)))

\* _add_kwargs(url, kwargs)
AddKwargs(requester, url, kwargs) ==
    WithHeaders(
        WithTimeout(requester,
            WithProxies(requester, url,
                WithCert(requester,
                    DictSet(kwargs, "verify", VerifyKwarg(requester, kwargs))))))

(***************************************************************************)
(* _call_method: the environment around the transport call                 *)
(***************************************************************************)
ProxyVars == {"http_proxy", "https_proxy", "no_proxy", "HTTP_PROXY", "HTTPS_PROXY", "NO_PROXY"}

\* var_name.upper() for the three names of line 137
VarUpper(name) ==
    CASE name = "http_proxy" -> "HTTP_PROXY"
      [] name = "https_proxy" -> "HTTPS_PROXY"
      [] name = "no_proxy" -> "NO_PROXY"

\* the names in the order lines 137-139 pop them
PopOrder ==
    <<"http_proxy", VarUpper("http_proxy"), "https_proxy", VarUpper("https_proxy"),
      "no_proxy", VarUpper("no_proxy")>>

\* method.upper()
MethodUpper(method) ==
    CASE method = "get" -> "GET"
      [] method = "put" -> "PUT"
      [] method = "post" -> "POST"
      [] method = "delete" -> "DELETE"

\* if self.proxies or self._no_proxy_match
NeedsNeutralization(requester) ==
    requester.proxies # EmptyDict \/ requester.no_proxy_match # << >>

\* a pop that leaves a variable in place when its value is empty
PopVarKeepEmpty(st, name) ==
    IF name \in DOMAIN st.env /\ st.env[name] # ""
    THEN [env |-> DictDel(st.env, name), popped |-> TRUE]
    ELSE st

\* popped = True if os.environ.pop(name, None) else popped
PopVar(st, name) ==
    [ env    |-> DictDel(st.env, name),
      popped |-> IF name \in DOMAIN st.env /\ st.env[name] # "" THEN TRUE ELSE st.popped ]

RECURSIVE PopFrom(_, _)
\* the pops of PopOrder[i], PopOrder[i + 1], ... applied in order
PopFrom(st, i) ==
    IF i > Len(PopOrder) THEN st ELSE PopFrom(PopVar(st, PopOrder[i]), i + 1)

\* lines 133-139 of a call that needs neutralization
CleanEnviron(env) == PopFrom([env |-> env, popped |-> FALSE], 1)

\* os.environ.clear()
EnvironClear(env) == EmptyDict

\* os.environ.clear(); os.environ.update(old_env)
EnvironRestore(env, old) == DictUpdate(EnvironClear(env), old)

\* how _call_method ends: what the transport raised, what the telemetry sink
\* raised, or the transport's return value
ReturnOf(response, telemetry) ==
    IF response = "raise" THEN [kind |-> "raise", exc |-> "transport"]
    ELSE IF telemetry = "raise" THEN [kind |-> "raise", exc |-> "telemetry"]
    ELSE [kind |-> "return", value |-> response]

(***************************************************************************)
(* Inputs                                                                  *)
(***************************************************************************)
Urls == {UrlInternal, UrlOther, UrlHost}

\* what the transport does (it returns a response or raises) and, when it
\* returned, what log_client_rest_api_call does
Outcomes ==
    { [response |-> "response", telemetry |-> "ok"],
      [response |-> "response", telemetry |-> "raise"],
      [response |-> "raise", telemetry |-> "ok"] }

CallerHeaders ==
    { EmptyDict,
      "X-A" :> HdrVal,
      ("User-Agent" :> CallerAgent) @@ ("X-A" :> HdrVal) }

\* the keyword options a caller passes
KwargsSet ==
    { EmptyDict }
    \cup { "verify" :> v : v \in {PyBool(TRUE), PyBool(FALSE), PyNone, PyInt(1),
                                  PyStr("/my/ca.pem")} }
    \cup { "headers" :> PyDict(h) : h \in CallerHeaders }
    \cup { "proxies" :> PyDict("http" :> CallerProxyUrl),
           "cert" :> PyStr("other.crt") }

NoProxyMatchOptions == {PatInternal, PatInternalAny, PatList, PatBlank, PatEmpty}

\* config.proxies: None, or a dict built from the three kinds of entries
ProxiesOptions ==
    { PyNone }
    \cup { PyDict(base @@ npm @@ np) :
             base \in {EmptyDict, "https_proxy" :> ProxyUrl},
             npm \in {EmptyDict} \cup {"no_proxy_match" :> p : p \in NoProxyMatchOptions},
             np \in {EmptyDict, "no_proxy" :> "", "no_proxy" :> "localhost"} }

ConfigOf(proxies, timeout) ==
    [ request_timeout      |-> timeout,
      proxies              |-> proxies,
      cacert_path          |-> CacertPath,
      client_cert_path     |-> CertPath,
      client_cert_key_path |-> KeyPath ]

\* every proxies option without a timeout
Configs == { ConfigOf(p, PyNone) : p \in ProxiesOptions }

\* a few proxies options with a timeout, with zero for a timeout, and without
FewConfigs ==
    { ConfigOf(p, t) :
        p \in { PyNone,
                PyDict(("https_proxy" :> ProxyUrl) @@ ("no_proxy_match" :> PatInternal)) },
        t \in {PyNone, PyInt(0), PyInt(60)} }

FileSets == SUBSET {CertPath, KeyPath}

\* an environment: PATH, and each given proxy variable set to a value
EnvOf(proxyVars) == ("PATH" :> "/bin") @@ proxyVars

Callers == {"c1", "c2"}

\* the largest number of proxy variables set in an initial environment of SpecEnv
MaxEnvSet == 2

EnvValues == {"", "http://env:3128"}

\* every environment with at most MaxEnvSet proxy variables set, each to the
\* empty string or to a proxy URL
BoundedEnvs ==
    { EnvOf(f) : f \in UNION { [S -> EnvValues] :
                               S \in {T \in SUBSET ProxyVars : Cardinality(T) <= MaxEnvSet} } }

\* the environments of Spec
FewEnvs ==
    { EnvOf(EmptyDict),
      EnvOf(("http_proxy" :> "http://env:3128") @@ ("NO_PROXY" :> "*")),
      EnvOf("HTTPS_PROXY" :> "") }

\* the configurations of SpecEnv: proxy map only, patterns only, proxy map with
\* the deprecated no_proxy, the deprecated no_proxy alone
EnvConfigs ==
    { ConfigOf(p, PyNone) :
        p \in { PyDict("https_proxy" :> ProxyUrl),
                PyDict("no_proxy_match" :> PatInternalAny),
                PyDict(("https_proxy" :> ProxyUrl) @@ ("no_proxy" :> "localhost")),
                PyDict("no_proxy" :> "localhost") } }

\* the configurations of SpecConc: every one needs neutralization
ConcConfigs ==
    { ConfigOf(p, PyNone) :
        p \in { PyDict("https_proxy" :> ProxyUrl),
                PyDict("no_proxy_match" :> PatInternalAny) } }

ConcEnvs ==
    { EnvOf(EmptyDict),
      EnvOf("http_proxy" :> "http://env:3128"),
      EnvOf(("http_proxy" :> "http://env:3128") @@ ("HTTPS_PROXY" :> "http://env:3128")) }

IdleFrame ==
    [ method |-> "", url |-> << >>, kwargs |-> EmptyDict, old_env |-> Nothing,
      popped |-> FALSE, i |-> 0, seen |-> Nothing, result |-> Nothing ]

(***************************************************************************)
(* Initial states                                                          *)
(***************************************************************************)
InitWith(cfgs, fileSets, envs) ==
    /\ config \in cfgs
    /\ files \in fileSets
    /\ environ \in envs
    /\ env0 = environ
    /\ warned = FALSE
    /\ self = Nothing
    /\ call = Nothing
    /\ sent = Nothing
    /\ logged = Nothing
    /\ ret = Nothing
    /\ old_env = Nothing
    /\ pc = [t \in Callers |-> "idle"]
    /\ loc = [t \in Callers |-> IdleFrame]

Init ==
    \/ InitWith(Configs, {{CertPath}}, {EnvOf(EmptyDict)})
    \/ InitWith(FewConfigs, FileSets, FewEnvs)

InitEnv == InitWith(EnvConfigs, {{CertPath}}, BoundedEnvs)

\* a requester already constructed, shared by the callers
InitConc ==
    /\ config \in ConcConfigs
    /\ files = FilesAfterInit(config, {})
    /\ environ \in {EnvironAfterInit(config, e) : e \in ConcEnvs}
    /\ env0 = environ
    /\ warned = FALSE
    /\ self = NewRequester(config, {})
    /\ call = Nothing
    /\ sent = Nothing
    /\ logged = Nothing
    /\ ret = Nothing
    /\ old_env = Nothing
    /\ pc = [t \in Callers |-> "idle"]
    /\ loc = [t \in Callers |-> IdleFrame]

(***************************************************************************)
(* Sequential operations                                                   *)
(***************************************************************************)
\* ConanRequester(config)
Construct ==
    /\ self = Nothing
    /\ self' = NewRequester(config, files)
    /\ environ' = EnvironAfterInit(config, environ)
    /\ env0' = environ'
    /\ warned' = DeprecatedNoProxy(InitialProxies(config))
    /\ files' = FilesAfterInit(config, files)
    /\ UNCHANGED <<config, seqVars, concVars>>

\* _call_method(method, url, **kwargs) from entry to return or raise.  call
\* keeps the arguments, the environment and the requester as they were at entry.
CallMethod(method, url, kwargs, response, telemetry) ==
    /\ self # Nothing
    /\ call = Nothing
    /\ LET neutral == NeedsNeutralization(self)
           st == IF neutral THEN CleanEnviron(environ)
                 ELSE [env |-> environ, popped |-> FALSE]
           all_kwargs == AddKwargs(self, url, kwargs)
       IN  /\ call' = [ method |-> method, url |-> url, kwargs |-> kwargs,
                       env |-> environ, requester |-> self ]
           /\ old_env' = IF neutral THEN [snapshot |-> environ] ELSE Nothing
           /\ sent' = [method |-> method, url |-> url, kwargs |-> all_kwargs, env |-> st.env]
           /\ logged' = IF response = "raise" THEN Nothing
                        ELSE [ url |-> url, method |-> MethodUpper(method),
                               headers |-> all_kwargs["headers"] ]
           /\ ret' = ReturnOf(response, telemetry)
           /\ environ' = IF st.popped THEN EnvironRestore(st.env, environ) ELSE st.env
    /\ UNCHANGED <<config, files, warned, self, env0, concVars>>

Get ==
    \E url \in Urls, kwargs \in KwargsSet, o \in Outcomes :
        CallMethod("get", url, kwargs, o.response, o.telemetry)

Put ==
    \E url \in Urls, kwargs \in KwargsSet, o \in Outcomes :
        CallMethod("put", url, kwargs, o.response, o.telemetry)

Delete ==
    \E url \in Urls, kwargs \in KwargsSet, o \in Outcomes :
        CallMethod("delete", url, kwargs, o.response, o.telemetry)

Post ==
    \E url \in Urls, kwargs \in KwargsSet, o \in Outcomes :
        CallMethod("post", url, kwargs, o.response, o.telemetry)

\* the caller takes the outcome; the frame of the call (per-call derived
\* state, not persisted) is gone and the next call can start
TakeResult ==
    /\ call # Nothing
    /\ call' = Nothing
    /\ sent' = Nothing
    /\ logged' = Nothing
    /\ ret' = Nothing
    /\ old_env' = Nothing
    /\ UNCHANGED <<config, files, environ, warned, self, env0, concVars>>

Next == Construct \/ Get \/ Put \/ Delete \/ Post \/ TakeResult

Spec == Init /\ [][Next]_vars

SpecEnv == InitEnv /\ [][Next]_vars

(***************************************************************************)
(* Concurrent callers: _call_method one statement at a time                *)
(***************************************************************************)
\* lines 133-135: popped = False; the snapshot when neutralization is needed
Enter(t) ==
    /\ pc[t] = "idle"
    /\ \E method \in {"get", "put"} :
         loc' = [loc EXCEPT ![t] =
                    [ IdleFrame EXCEPT !.method = method, !.url = UrlOther,
                        !.old_env = IF NeedsNeutralization(self)
                                    THEN [snapshot |-> environ] ELSE Nothing,
                        !.i = 1 ]]
    /\ pc' = [pc EXCEPT ![t] = IF NeedsNeutralization(self) THEN "pop" ELSE "try"]
    /\ UNCHANGED <<config, files, environ, warned, self, env0, seqVars>>

\* one os.environ.pop of lines 138-139
PopNext(t) ==
    /\ pc[t] = "pop"
    /\ LET st == PopVar([env |-> environ, popped |-> loc[t].popped], PopOrder[loc[t].i])
       IN  /\ environ' = st.env
           /\ loc' = [loc EXCEPT ![t].popped = st.popped, ![t].i = @ + 1]
    /\ pc' = [pc EXCEPT ![t] = IF loc[t].i = Len(PopOrder) THEN "try" ELSE "pop"]
    /\ UNCHANGED <<config, files, warned, self, env0, seqVars>>

\* lines 141-143: the transport is invoked
Invoke(t) ==
    /\ pc[t] = "try"
    /\ loc' = [loc EXCEPT ![t].seen =
                 [ kwargs |-> AddKwargs(self, loc[t].url, loc[t].kwargs), env |-> environ ]]
    /\ pc' = [pc EXCEPT ![t] = "transport"]
    /\ UNCHANGED <<config, files, environ, warned, self, env0, seqVars>>

\* line 143: the transport returns or raises
TransportEnds(t) ==
    /\ pc[t] = "transport"
    /\ \E response \in {"response", "raise"} :
         /\ loc' = [loc EXCEPT ![t].result = ReturnOf(response, "ok")]
         /\ pc' = [pc EXCEPT ![t] = IF response = "raise" THEN "finally" ELSE "log"]
    /\ UNCHANGED <<config, files, environ, warned, self, env0, seqVars>>

\* lines 144-146: the telemetry record and the return
Log(t) ==
    /\ pc[t] = "log"
    /\ \E telemetry \in {"ok", "raise"} :
         loc' = [loc EXCEPT ![t].result = ReturnOf(loc[t].result.value, telemetry)]
    /\ pc' = [pc EXCEPT ![t] = "finally"]
    /\ UNCHANGED <<config, files, environ, warned, self, env0, seqVars>>

\* lines 148-149: if popped: os.environ.clear()
FinallyClear(t) ==
    /\ pc[t] = "finally"
    /\ environ' = IF loc[t].popped THEN EnvironClear(environ) ELSE environ
    /\ pc' = [pc EXCEPT ![t] = IF loc[t].popped THEN "update" ELSE "done"]
    /\ UNCHANGED <<config, files, warned, self, env0, loc, seqVars>>

\* line 150: os.environ.update(old_env)
FinallyUpdate(t) ==
    /\ pc[t] = "update"
    /\ environ' = DictUpdate(environ, loc[t].old_env.snapshot)
    /\ pc' = [pc EXCEPT ![t] = "done"]
    /\ UNCHANGED <<config, files, warned, self, env0, loc, seqVars>>

NextConc ==
    \E t \in Callers :
        \/ Enter(t)
        \/ PopNext(t)
        \/ Invoke(t)
        \/ TransportEnds(t)
        \/ Log(t)
        \/ FinallyClear(t)
        \/ FinallyUpdate(t)

SpecConc == InitConc /\ [][NextConc]_vars

(***************************************************************************)
(* Claims                                                                  *)
(***************************************************************************)
\* the proxy variables of env agree with those of env2: set to the same value
\* or unset in both
SameProxyVars(env, env2) ==
    \A v \in ProxyVars :
        /\ v \in DOMAIN env <=> v \in DOMAIN env2
        /\ v \in DOMAIN env => env[v] = env2[v]

\* the requester has a non-empty proxy map or at least one bypass pattern
HasProxyConfig == self.proxies # EmptyDict \/ Len(self.no_proxy_match) > 0

\* C1: after a call on a requester with a non-empty proxy map or a bypass
\* pattern has returned or raised, each of the six proxy variables has the
\* value it had before the call, or is unset if it was unset before.
C1_EnvRestoredAfterCall ==
    (call # Nothing /\ HasProxyConfig) => SameProxyVars(environ, call.env)

\* C2: with concurrent callers on one requester that needs neutralization,
\* no call's restore leaves the environment different from the one before
\* the first call started, and no call's restore brings proxy variables back
\* while another call's transport invocation is in flight.
C2_ConcurrentRestoresSafe ==
    [][\A t \in Callers :
          (pc[t] = "update" /\ pc'[t] = "done") =>
              /\ environ' = env0
              /\ \A u \in Callers \ {t} :
                     pc[u] = "transport" => DOMAIN environ' \cap ProxyVars = {}]_vars

\* the requester of the scenario, and its call get(UrlInternal) without options
C3Case ==
    /\ call # Nothing
    /\ config.proxies =
           PyDict(("https_proxy" :> ProxyUrl) @@ ("no_proxy_match" :> PatInternal))
    /\ call.method = "get"
    /\ call.url = UrlInternal
    /\ call.kwargs = EmptyDict

\* C3 as stated: for proxies = {"https_proxy": "http://p:8080", "no_proxy_match":
\* "*.internal.example"}, get("https://foo.internal.example/x") invokes the
\* transport with no proxies parameter.
C3_BypassScenarioOriginal == C3Case => "proxies" \notin DOMAIN sent.kwargs

\* C3 amended: in that scenario the transport is invoked with proxies =
\* {"https_proxy": "http://p:8080"}, because the pattern is glob-matched
\* against the whole URL and does not match one that goes on with "/x".
C3_BypassScenario ==
    C3Case =>
        /\ "proxies" \in DOMAIN sent.kwargs
        /\ sent.kwargs["proxies"] = PyDict("https_proxy" :> ProxyUrl)

C3_Witness == C3Case /\ sent.method = "get" /\ "proxies" \in DOMAIN sent.kwargs

\* C4: the transport receives a proxies parameter exactly when the proxy map
\* is non-empty and the URL matches no bypass pattern; it then equals the
\* proxy map, and it is absent otherwise, whatever the caller supplied.
C4_ProxiesIffConfigured ==
    call # Nothing =>
        LET attach == self.proxies # EmptyDict /\ ~ShouldSkipProxy(self, call.url)
        IN  /\ "proxies" \in DOMAIN sent.kwargs <=> attach
            /\ attach => sent.kwargs["proxies"] = PyDict(self.proxies)

\* C5: the verify parameter handed to the transport is the configured CA
\* bundle path when the caller passed verify = True, and False for every
\* other caller value (False, None, absent, a path string, the integer 1).
C5_Verify ==
    call # Nothing =>
        sent.kwargs["verify"] =
            IF "verify" \in DOMAIN call.kwargs /\ call.kwargs["verify"] = PyBool(TRUE)
            THEN PyStr(config.cacert_path)
            ELSE PyBool(FALSE)

C5_Witness ==
    /\ call # Nothing
    /\ "verify" \in DOMAIN call.kwargs
    /\ call.kwargs["verify"] = PyBool(TRUE)
    /\ sent.kwargs["verify"] = PyStr(CacertPath)

\* the headers mapping the caller supplied, empty when there is none
CallerHeadersOf(kwargs) ==
    IF "headers" \in DOMAIN kwargs /\ kwargs["headers"].t = "dict"
    THEN kwargs["headers"].d
    ELSE EmptyDict

\* C6: the headers handed to the transport hold a User-Agent entry whose
\* value is the composed string, which contains the client version; a
\* User-Agent of the caller never reaches the transport, and every other
\* header of the caller is passed through unchanged.
C6_UserAgent ==
    call # Nothing =>
        LET h == sent.kwargs["headers"]
            theirs == CallerHeadersOf(call.kwargs)
        IN  /\ h.t = "dict"
            /\ DOMAIN h.d = DOMAIN theirs \cup {"User-Agent"}
            /\ h.d["User-Agent"] = user_agent
            /\ Contains(h.d["User-Agent"], client_version)
            /\ "User-Agent" \in DOMAIN theirs => h.d["User-Agent"] # theirs["User-Agent"]
            /\ \A k \in DOMAIN theirs \ {"User-Agent"} : h.d[k] = theirs[k]

C6_Witness ==
    /\ call # Nothing
    /\ "User-Agent" \in DOMAIN CallerHeadersOf(call.kwargs)
    /\ "X-A" \in DOMAIN sent.kwargs["headers"].d
    /\ sent.kwargs["headers"].d["User-Agent"] = user_agent

\* C7: the client certificate resolved at construction is the cert path when
\* only the cert file exists, the pair (cert path, key path) when both exist,
\* and None when the cert file does not exist, the key file existing or not;
\* every call passes this value as the transport's cert parameter.
C7_ClientCertificate ==
    self # Nothing =>
        LET cert == config.client_cert_path \in files
            key == config.client_cert_key_path \in files
        IN  /\ (cert /\ ~key) => self.client_certificates = PyStr(config.client_cert_path)
            /\ (cert /\ key) =>
                   self.client_certificates =
                       PyTuple(<<config.client_cert_path, config.client_cert_key_path>>)
            /\ ~cert => self.client_certificates = PyNone
            /\ call # Nothing => sent.kwargs["cert"] = self.client_certificates

C7_Witness ==
    /\ call # Nothing
    /\ files = {CertPath, CacertPath}
    /\ "cert" \in DOMAIN call.kwargs
    /\ sent.kwargs["cert"] = PyStr(CertPath)

\* C8: whenever the transport returned a response, the call returns that
\* response, also when the telemetry record step fails, and in that case the
\* environment is restored as well.
C8_TelemetryCannotFailCall ==
    (call # Nothing /\ logged # Nothing) =>
        /\ ret = [kind |-> "return", value |-> "response"]
        /\ ret.kind = "raise" => SameProxyVars(environ, call.env)

\* the substrings of s between its commas, in order, by the comma positions
CommaFields(s) ==
    LET cuts == {0} \cup {i \in 1..Len(s) : s[i] = ","} \cup {Len(s) + 1}
        nth(k) == CHOOSE c \in cuts : Cardinality({d \in cuts : d < c}) = k - 1
    IN  [k \in 1..(Cardinality(cuts) - 1) |-> SubSeq(s, nth(k) + 1, nth(k + 1) - 1)]

\* s without the whitespace at its two ends
Trimmed(s) ==
    LET solid == {i \in 1..Len(s) : s[i] \notin Whitespace}
    IN  IF solid = {} THEN << >>
        ELSE SubSeq(s, CHOOSE i \in solid : \A j \in solid : i <= j,
                       CHOOSE i \in solid : \A j \in solid : i >= j)

\* the configured no_proxy_match value, empty when there is none
ConfiguredNoProxyMatch ==
    IF config.proxies.t = "dict" /\ "no_proxy_match" \in DOMAIN config.proxies.d
    THEN config.proxies.d["no_proxy_match"]
    ELSE << >>

\* what C9 says of the proxy map and of what calls leave alone
C9Rest ==
    /\ "no_proxy_match" \notin DOMAIN self.proxies
    /\ "no_proxy" \notin DOMAIN self.proxies
    /\ call # Nothing => self = call.requester

\* C9 as stated: after construction and through any calls, the proxy map holds
\* neither no_proxy_match nor no_proxy, the pattern list is the comma-split,
\* whitespace-stripped entries of the configured no_proxy_match value in
\* order (no entry for an empty value), and no call changes the requester.
C9_ConfigurationOriginal ==
    self # Nothing =>
        /\ C9Rest
        /\ self.no_proxy_match =
               IF ConfiguredNoProxyMatch = << >> THEN << >>
               ELSE [k \in 1..Len(CommaFields(ConfiguredNoProxyMatch)) |->
                        Trimmed(CommaFields(ConfiguredNoProxyMatch)[k])]

\* C9 amended: as stated, but the pattern list is the comma-split entries
\* with the zero-length ones left out, each of the others whitespace-stripped.
C9_Configuration ==
    self # Nothing =>
        /\ C9Rest
        /\ LET kept == SelectSeq(CommaFields(ConfiguredNoProxyMatch),
                                 LAMBDA el : Len(el) > 0)
           IN  self.no_proxy_match = [k \in 1..Len(kept) |-> Trimmed(kept[k])]

C9_Witness ==
    /\ call # Nothing
    /\ ConfiguredNoProxyMatch = PatList
    /\ Len(self.no_proxy_match) = 2
    /\ DOMAIN config.proxies.d = {"https_proxy", "no_proxy_match", "no_proxy"}
    /\ DOMAIN self.proxies = {"https_proxy"}

\* C10: in a call on a requester with a non-empty proxy map or a bypass
\* pattern, none of the six proxy variables is set when the transport is
\* invoked, a NO_PROXY written at construction included, and every other
\* variable has its value from before the call; in a call on a requester with
\* neither, no snapshot is taken and the environment is the one from before
\* the call, for the transport and afterwards.
C10_NeutralizationWindow ==
    call # Nothing =>
        IF HasProxyConfig
        THEN /\ DOMAIN sent.env = DOMAIN call.env \ ProxyVars
             /\ \A v \in DOMAIN sent.env : sent.env[v] = call.env[v]
        ELSE /\ old_env = Nothing
             /\ sent.env = call.env
             /\ environ = call.env

C10_Witness ==
    /\ call # Nothing
    /\ HasProxyConfig
    /\ warned
    /\ "NO_PROXY" \in DOMAIN call.env
    /\ "https_proxy" \in DOMAIN call.env
    /\ call.env["https_proxy"] = ""
    /\ DOMAIN sent.env = {"PATH"}

=============================================================================
